---- MODULE Spec2Model ----
(***************************************************************************)
(* Naming-convention analysis and safe-rename flow of the refactoring      *)
(* tool (features/fixNaming.js, utils/namingUtils.js).                     *)
(*                                                                         *)
(* Strings are sequences of one-character strings, so that the regular     *)
(* expressions of the source can be computed character by character.      *)
(***************************************************************************)
EXTENDS Integers, Sequences, FiniteSets, TLC

\* ------------------------------------------------------------------------
\* Characters
\* ------------------------------------------------------------------------
LowerSeq ==
  <<"a","b","c","d","e","f","g","h","i","j","k","l","m",
    "n","o","p","q","r","s","t","u","v","w","x","y","z">>

UpperSeq ==
  <<"A","B","C","D","E","F","G","H","I","J","K","L","M",
    "N","O","P","Q","R","S","T","U","V","W","X","Y","Z">>

Lower == {LowerSeq[i] : i \in 1..26}

Upper == {UpperSeq[i] : i \in 1..26}

Digit == {"0","1","2","3","4","5","6","7","8","9"}

\* [a-zA-Z0-9]
AlNum == Lower \cup Upper \cup Digit

\* \w of a JavaScript regular expression: [A-Za-z0-9_]
WordChar == AlNum \cup {"_"}

\* \s restricted to the whitespace the model's texts contain
Space == {" "}

IndexIn(seq, c) == CHOOSE i \in 1..Len(seq) : seq[i] = c

\* String.prototype.toUpperCase on one character
UpperOf(c) == IF c \in Lower THEN UpperSeq[IndexIn(LowerSeq, c)] ELSE c

\* String.prototype.toLowerCase on one character
LowerOf(c) == IF c \in Upper THEN LowerSeq[IndexIn(UpperSeq, c)] ELSE c

ToLowerCase(s) == [i \in 1..Len(s) |-> LowerOf(s[i])]

\* s.slice(from) with a 1-based first index
SliceFrom(s, from) == IF from > Len(s) THEN <<>> ELSE SubSeq(s, from, Len(s))

\* ------------------------------------------------------------------------
\* Case model: utils/namingUtils.js
\* ------------------------------------------------------------------------
isNonEmptyString(v) == Len(v) > 0

\* /^[a-z][a-zA-Z0-9]*$/ and an upper-case letter after position 0
isCamelCase(name) ==
  /\ isNonEmptyString(name)
  /\ name[1] \in Lower
  /\ \A i \in 2..Len(name) : name[i] \in AlNum
  /\ \E i \in 2..Len(name) : name[i] \in Upper

\* /^[A-Z][a-zA-Z0-9]*$/ and a lower-case letter anywhere
isPascalCase(name) ==
  /\ isNonEmptyString(name)
  /\ name[1] \in Upper
  /\ \A i \in 2..Len(name) : name[i] \in AlNum
  /\ \E i \in 1..Len(name) : name[i] \in Lower

\* Does s[from..] match (?:_[a-z0-9]+)+$ ?
RECURSIVE SnakeTail(_, _)
SnakeTail(s, from) ==
  IF from > Len(s) \/ s[from] # "_" THEN FALSE
  ELSE LET ends == {e \in (from + 1)..Len(s) :
                      \A j \in (from + 1)..e : s[j] \in (Lower \cup Digit)}
       IN  \E e \in ends : e = Len(s) \/ SnakeTail(s, e + 1)

\* /^[a-z]+(?:_[a-z0-9]+)+$/
isSnakeCase(name) ==
  /\ isNonEmptyString(name)
  /\ \E h \in 1..Len(name) :
       /\ \A j \in 1..h : name[j] \in Lower
       /\ SnakeTail(name, h + 1)

\* .replace(/[_-]+(.)?/g, (_, g) => (g ? g.toUpperCase() : "")): a maximal
\* run of separators is dropped together with the character after it, which
\* is written back in upper case
RECURSIVE MergeSeparators(_, _)
MergeSeparators(s, i) ==
  IF i > Len(s) THEN <<>>
  ELSE IF s[i] \in {"_", "-"}
       THEN LET run == CHOOSE e \in i..Len(s) :
                         /\ \A j \in i..e : s[j] \in {"_", "-"}
                         /\ (e = Len(s) \/ s[e + 1] \notin {"_", "-"})
            IN  IF run = Len(s) THEN <<>>
                ELSE <<UpperOf(s[run + 1])>> \o MergeSeparators(s, run + 2)
       ELSE <<s[i]>> \o MergeSeparators(s, i + 1)

\* .replace(/^[A-Z]/, (c) => c.toLowerCase())
LowerFirst(s) == IF Len(s) > 0 /\ s[1] \in Upper
                 THEN <<LowerOf(s[1])>> \o Tail(s) ELSE s

\* the transformer with its .toLowerCase() step in place
toCamelCase_LowerCased(name) ==
  IF ~isNonEmptyString(name) THEN name
  ELSE LowerFirst(MergeSeparators(ToLowerCase(name), 1))

\* the current toCamelCase: the .toLowerCase() step is commented out
toCamelCase(name) ==
  IF ~isNonEmptyString(name) THEN name
  ELSE LowerFirst(MergeSeparators(name, 1))

\* .replace(/([a-z])([A-Z])/g, "$1 $2")
RECURSIVE SplitHumps(_, _)
SplitHumps(s, i) ==
  IF i > Len(s) THEN <<>>
  ELSE IF i < Len(s) /\ s[i] \in Lower /\ s[i + 1] \in Upper
       THEN <<s[i], " ", s[i + 1]>> \o SplitHumps(s, i + 2)
       ELSE <<s[i]>> \o SplitHumps(s, i + 1)

\* .replace(<a run of characters of cls>, rep) for every maximal run
RECURSIVE ReplaceRuns(_, _, _, _)
ReplaceRuns(s, i, cls, rep) ==
  IF i > Len(s) THEN <<>>
  ELSE IF s[i] \in cls
       THEN IF i > 1 /\ s[i - 1] \in cls
            THEN ReplaceRuns(s, i + 1, cls, rep)
            ELSE <<rep>> \o ReplaceRuns(s, i + 1, cls, rep)
       ELSE <<s[i]>> \o ReplaceRuns(s, i + 1, cls, rep)

\* word.charAt(0).toUpperCase() + word.slice(1).toLowerCase()
Capitalize(word) ==
  IF Len(word) = 0 THEN <<>>
  ELSE <<UpperOf(word[1])>> \o ToLowerCase(Tail(word))

\* .split(" ").map(Capitalize).join(""): the words are the maximal runs
\* between single spaces (empty words contribute nothing)
RECURSIVE CapitalizeWords(_, _, _)
CapitalizeWords(s, i, word) ==
  IF i > Len(s) THEN Capitalize(word)
  ELSE IF s[i] = " "
       THEN Capitalize(word) \o CapitalizeWords(s, i + 1, <<>>)
       ELSE CapitalizeWords(s, i + 1, Append(word, s[i]))

toPascalCase(name) ==
  IF ~isNonEmptyString(name) THEN name
  ELSE CapitalizeWords(
         ReplaceRuns(SplitHumps(name, 1), 1, {"_", "-"}, " "), 1, <<>>)

\* .replace(/([a-z0-9])([A-Z])/g, "$1_$2")
RECURSIVE SplitLowerUpper(_, _)
SplitLowerUpper(s, i) ==
  IF i > Len(s) THEN <<>>
  ELSE IF i < Len(s) /\ s[i] \in (Lower \cup Digit) /\ s[i + 1] \in Upper
       THEN <<s[i], "_", s[i + 1]>> \o SplitLowerUpper(s, i + 2)
       ELSE <<s[i]>> \o SplitLowerUpper(s, i + 1)

\* .replace(/([A-Z]+)([A-Z][a-z0-9]+)/g, "$1_$2"): the match starts at the
\* first upper-case letter of a run that has not been consumed, [A-Z]+ backs
\* off to leave the run's last letter for the second group, and the match
\* ends after the maximal [a-z0-9]+ behind it
RECURSIVE SplitAcronyms(_, _)
SplitAcronyms(s, i) ==
  IF i > Len(s) THEN <<>>
  ELSE IF s[i] \in Upper
       THEN LET last == CHOOSE e \in i..Len(s) :
                          /\ \A j \in i..e : s[j] \in Upper
                          /\ (e = Len(s) \/ s[e + 1] \notin Upper)
                tailEnd == IF last < Len(s) /\ s[last + 1] \in (Lower \cup Digit)
                           THEN CHOOSE e \in (last + 1)..Len(s) :
                                  /\ \A j \in (last + 1)..e :
                                        s[j] \in (Lower \cup Digit)
                                  /\ (e = Len(s)
                                        \/ s[e + 1] \notin (Lower \cup Digit))
                           ELSE last
            IN  IF last > i /\ tailEnd > last
                THEN SubSeq(s, i, last - 1) \o <<"_">>
                       \o SubSeq(s, last, tailEnd) \o SplitAcronyms(s, tailEnd + 1)
                ELSE <<s[i]>> \o SplitAcronyms(s, i + 1)
       ELSE <<s[i]>> \o SplitAcronyms(s, i + 1)

\* a transformer that ends with .toUpperCase()
toSnakeCase_UpperCased(name) ==
  IF ~isNonEmptyString(name) THEN name
  ELSE LET split == SplitAcronyms(
                      ReplaceRuns(SplitLowerUpper(name, 1), 1,
                                  {"-"} \cup Space, "_"), 1)
       IN  [i \in 1..Len(split) |-> UpperOf(split[i])]

toSnakeCase(name) ==
  IF ~isNonEmptyString(name) THEN name
  ELSE ToLowerCase(
         SplitAcronyms(
           ReplaceRuns(SplitLowerUpper(name, 1), 1, {"-"} \cup Space, "_"), 1))

\* ------------------------------------------------------------------------
\* Rename engine, pure part: features/fixNaming.js
\* ------------------------------------------------------------------------
\* the labels of the style quick pick, without their emoji
NamingStyles == {"snake_case", "camelCase", "PascalCase"}

\* getStyleFunctions(namingStyle).isStyle
isStyle(namingStyle, name) ==
  IF namingStyle = "snake_case" THEN isSnakeCase(name)
  ELSE IF namingStyle = "PascalCase" THEN isPascalCase(name)
  ELSE isCamelCase(name)

\* getStyleFunctions with the transformers of the last two branches swapped
toStyle_Swapped(namingStyle, name) ==
  IF namingStyle = "snake_case" THEN toSnakeCase(name)
  ELSE IF namingStyle = "PascalCase" THEN toCamelCase(name)
  ELSE toPascalCase(name)

\* getStyleFunctions(namingStyle).toStyle
toStyle(namingStyle, name) ==
  IF namingStyle = "snake_case" THEN toSnakeCase(name)
  ELSE IF namingStyle = "PascalCase" THEN toPascalCase(name)
  ELSE toCamelCase(name)

shortCommonNames ==
  {<<"s","u","m">>,
   <<"a","v","g">>,
   <<"m","a","x">>,
   <<"m","i","n">>,
   <<"v","a","l">>,
   <<"n","u","m">>,
   <<"i","d","x">>,
   <<"l","e","n">>,
   <<"r","o","w">>,
   <<"c","o","l">>,
   <<"t","m","p">>,
   <<"r","e","s">>,
   <<"o","b","j">>}

\* shouldSkipRename without the single-word test
shouldSkipRename_AnyCase(name, style) ==
  Len(name) <= 4 /\ ToLowerCase(name) \in shortCommonNames

shouldSkipRename(name, style) ==
  LET isSingleWord == Len(name) > 0 /\ \A i \in 1..Len(name) : name[i] \in Lower
      isShort == Len(name) <= 4
      isCommon == ToLowerCase(name) \in shortCommonNames
  IN  isSingleWord /\ isShort /\ isCommon

\* new Set([...scopeStack.flat()])
allBindings(scopeStack) == UNION {scopeStack[i] : i \in 1..Len(scopeStack)}

\* handleBinding without the look-up of the suggestion in the scope stack
handleBinding_NoGuard(name, scopeStack, namingStyle, found) ==
  LET suggestion == toStyle(namingStyle, name)
  IN  IF /\ ~isStyle(namingStyle, name)
         /\ name # suggestion
         /\ ~shouldSkipRename(name, namingStyle)
      THEN Append(found, [original |-> name, suggestion |-> suggestion])
      ELSE found

handleBinding(name, scopeStack, namingStyle, found) ==
  LET suggestion == toStyle(namingStyle, name)
  IN  IF /\ ~isStyle(namingStyle, name)
         /\ name # suggestion
         /\ ~shouldSkipRename(name, namingStyle)
         /\ suggestion \notin allBindings(scopeStack)
      THEN Append(found, [original |-> name, suggestion |-> suggestion])
      ELSE found

\* the loops over the names an external extractor returned (Python, C#)
RECURSIVE collectExtracted(_, _, _)
collectExtracted(names, namingStyle, found) ==
  IF names = <<>> THEN found
  ELSE LET name == Head(names)
           suggestion == toStyle(namingStyle, name)
       IN  collectExtracted(Tail(names), namingStyle,
             IF /\ ~isStyle(namingStyle, name)
                /\ name # suggestion
                /\ ~shouldSkipRename(name, namingStyle)
             THEN Append(found, [original |-> name, suggestion |-> suggestion])
             ELSE found)

\* ---- new RegExp(`\\b${original}\\b`, "g") ------------------------------
IsWordAt(code, p) == p >= 1 /\ p <= Len(code) /\ code[p] \in WordChar

\* \b between positions p - 1 and p
Boundary(code, p) == IsWordAt(code, p - 1) # IsWordAt(code, p)

\* The name is the source of the pattern: a word character matches itself
\* and "$" is the end-of-input assertion. The result is the position after
\* the match, 0 when there is none.
RECURSIVE MatchFrom(_, _, _, _)
MatchFrom(code, pos, pat, k) ==
  IF k > Len(pat) THEN pos
  ELSE IF pat[k] = "$"
       THEN IF pos = Len(code) + 1 THEN MatchFrom(code, pos, pat, k + 1) ELSE 0
       ELSE IF pos <= Len(code) /\ code[pos] = pat[k]
            THEN MatchFrom(code, pos + 1, pat, k + 1)
            ELSE 0

WordMatchEnd(code, pos, original) ==
  IF ~Boundary(code, pos) THEN 0
  ELSE LET e == MatchFrom(code, pos, original, 1)
       IN  IF e # 0 /\ Boundary(code, e) THEN e ELSE 0

\* String.prototype.replace with a global pattern: matches are found left
\* to right and do not overlap; an empty match advances by one character
RECURSIVE ReplaceFrom(_, _, _, _)
ReplaceFrom(code, pos, original, suggestion) ==
  IF pos > Len(code) + 1 THEN <<>>
  ELSE LET e == WordMatchEnd(code, pos, original)
           here == IF pos <= Len(code) THEN <<code[pos]>> ELSE <<>>
       IN  IF e = 0
           THEN here \o ReplaceFrom(code, pos + 1, original, suggestion)
           ELSE IF e = pos
                THEN suggestion \o here
                       \o ReplaceFrom(code, pos + 1, original, suggestion)
                ELSE suggestion \o ReplaceFrom(code, e, original, suggestion)

applyChange(code, original, suggestion) ==
  ReplaceFrom(code, 1, original, suggestion)

\* applyAllChanges replacing in `code` instead of `updatedCode`: only the
\* last candidate's replacement survives
applyAllChanges_NotChained(code, found) ==
  IF found = <<>> THEN code
  ELSE ReplaceFrom(code, 1, found[Len(found)].original,
                   found[Len(found)].suggestion)

RECURSIVE applyAllChanges(_, _)
applyAllChanges(code, found) ==
  IF found = <<>> THEN code
  ELSE applyAllChanges(
         ReplaceFrom(code, 1, Head(found).original, Head(found).suggestion),
         Tail(found))

\* ------------------------------------------------------------------------
\* Source files the command is run on: the text, what the parser and the
\* scope analysis of @babel/traverse make of it (nodes in visiting order,
\* each with the scope of its path, and the binding names of each scope),
\* and what the external extractor prints for it.
\* ------------------------------------------------------------------------
\* const my_var = 1; function my_func() {}
SrcTwoDecls ==
  [languageId |-> "javascript",
   text |-> <<"c","o","n","s","t"," ","m","y","_","v","a","r"," ","="," ","1",";"," ","f","u","n","c","t","i","o","n"," ","m","y","_","f","u","n","c","(",")"," ","{","}">>,
   parses |-> TRUE,
   ast |-> <<
      [type |-> "Program", name |-> <<>>, parent |-> 0, scope |-> 1],
      [type |-> "VariableDeclaration", name |-> <<>>, parent |-> 1, scope |-> 1],
      [type |-> "VariableDeclarator", name |-> <<"m","y","_","v","a","r">>, parent |-> 2, scope |-> 1],
      [type |-> "Identifier", name |-> <<"m","y","_","v","a","r">>, parent |-> 3, scope |-> 1],
      [type |-> "NumericLiteral", name |-> <<>>, parent |-> 3, scope |-> 1],
      [type |-> "FunctionDeclaration", name |-> <<"m","y","_","f","u","n","c">>, parent |-> 1, scope |-> 2],
      [type |-> "Identifier", name |-> <<"m","y","_","f","u","n","c">>, parent |-> 6, scope |-> 2],
      [type |-> "BlockStatement", name |-> <<>>, parent |-> 6, scope |-> 2] >>,
   bindings |-> <<{<<"m","y","_","v","a","r">>, <<"m","y","_","f","u","n","c">>}, {}>>,
   extracted |-> <<>>]

\* const my_var = 1; function f() { const myVar = 2; return my_var + myVar; }
SrcInner ==
  [languageId |-> "javascript",
   text |-> <<"c","o","n","s","t"," ","m","y","_","v","a","r"," ","="," ","1",";"," ","f","u","n","c","t","i","o","n"," ","f","(",")"," ","{"," ","c","o","n","s","t"," ","m","y","V","a","r"," ","="," ","2",";"," ","r","e","t","u","r","n"," ","m","y","_","v","a","r"," ","+"," ","m","y","V","a","r",";"," ","}">>,
   parses |-> TRUE,
   ast |-> <<
      [type |-> "Program", name |-> <<>>, parent |-> 0, scope |-> 1],
      [type |-> "VariableDeclaration", name |-> <<>>, parent |-> 1, scope |-> 1],
      [type |-> "VariableDeclarator", name |-> <<"m","y","_","v","a","r">>, parent |-> 2, scope |-> 1],
      [type |-> "Identifier", name |-> <<"m","y","_","v","a","r">>, parent |-> 3, scope |-> 1],
      [type |-> "NumericLiteral", name |-> <<>>, parent |-> 3, scope |-> 1],
      [type |-> "FunctionDeclaration", name |-> <<"f">>, parent |-> 1, scope |-> 2],
      [type |-> "Identifier", name |-> <<"f">>, parent |-> 6, scope |-> 2],
      [type |-> "BlockStatement", name |-> <<>>, parent |-> 6, scope |-> 2],
      [type |-> "VariableDeclaration", name |-> <<>>, parent |-> 8, scope |-> 2],
      [type |-> "VariableDeclarator", name |-> <<"m","y","V","a","r">>, parent |-> 9, scope |-> 2],
      [type |-> "Identifier", name |-> <<"m","y","V","a","r">>, parent |-> 10, scope |-> 2],
      [type |-> "NumericLiteral", name |-> <<>>, parent |-> 10, scope |-> 2],
      [type |-> "ReturnStatement", name |-> <<>>, parent |-> 8, scope |-> 2],
      [type |-> "BinaryExpression", name |-> <<>>, parent |-> 13, scope |-> 2],
      [type |-> "Identifier", name |-> <<"m","y","_","v","a","r">>, parent |-> 14, scope |-> 2],
      [type |-> "Identifier", name |-> <<"m","y","V","a","r">>, parent |-> 14, scope |-> 2] >>,
   bindings |-> <<{<<"m","y","_","v","a","r">>, <<"f">>}, {<<"m","y","V","a","r">>}>>,
   extracted |-> <<>>]

\* var my_var = 1; function f() { var my_var = 2; }
SrcRedeclared ==
  [languageId |-> "javascript",
   text |-> <<"v","a","r"," ","m","y","_","v","a","r"," ","="," ","1",";"," ","f","u","n","c","t","i","o","n"," ","f","(",")"," ","{"," ","v","a","r"," ","m","y","_","v","a","r"," ","="," ","2",";"," ","}">>,
   parses |-> TRUE,
   ast |-> <<
      [type |-> "Program", name |-> <<>>, parent |-> 0, scope |-> 1],
      [type |-> "VariableDeclaration", name |-> <<>>, parent |-> 1, scope |-> 1],
      [type |-> "VariableDeclarator", name |-> <<"m","y","_","v","a","r">>, parent |-> 2, scope |-> 1],
      [type |-> "Identifier", name |-> <<"m","y","_","v","a","r">>, parent |-> 3, scope |-> 1],
      [type |-> "NumericLiteral", name |-> <<>>, parent |-> 3, scope |-> 1],
      [type |-> "FunctionDeclaration", name |-> <<"f">>, parent |-> 1, scope |-> 2],
      [type |-> "Identifier", name |-> <<"f">>, parent |-> 6, scope |-> 2],
      [type |-> "BlockStatement", name |-> <<>>, parent |-> 6, scope |-> 2],
      [type |-> "VariableDeclaration", name |-> <<>>, parent |-> 8, scope |-> 2],
      [type |-> "VariableDeclarator", name |-> <<"m","y","_","v","a","r">>, parent |-> 9, scope |-> 2],
      [type |-> "Identifier", name |-> <<"m","y","_","v","a","r">>, parent |-> 10, scope |-> 2],
      [type |-> "NumericLiteral", name |-> <<>>, parent |-> 10, scope |-> 2] >>,
   bindings |-> <<{<<"m","y","_","v","a","r">>, <<"f">>}, {<<"m","y","_","v","a","r">>}>>,
   extracted |-> <<>>]

\* function {   (the parser throws)
SrcMalformed ==
  [languageId |-> "javascript",
   text |-> <<"f","u","n","c","t","i","o","n"," ","{">>,
   parses |-> FALSE,
   ast |-> <<
       >>,
   bindings |-> <<>>,
   extracted |-> <<>>]

\* a Python file whose extractor lists a_bC and ABC
SrcPython ==
  [languageId |-> "python",
   text |-> <<"a","_","b","C"," ","="," ","A","B","C">>,
   parses |-> TRUE,
   ast |-> <<
       >>,
   bindings |-> <<>>,
   extracted |-> <<<<"a","_","b","C">>, <<"A","B","C">>>>]

\* a C# file whose extractor lists my_var twice
SrcCSharp ==
  [languageId |-> "csharp",
   text |-> <<"i","n","t"," ","m","y","_","v","a","r",";"," ","i","n","t"," ","m","y","_","v","a","r",";">>,
   parses |-> TRUE,
   ast |-> <<
       >>,
   bindings |-> <<>>,
   extracted |-> <<<<"m","y","_","v","a","r">>, <<"m","y","_","v","a","r">>>>]

Sources ==
  <<SrcTwoDecls, SrcInner, SrcRedeclared, SrcMalformed, SrcPython, SrcCSharp>>

\* ---- the order in which traverse() enters and leaves the nodes ----------
Children(ast, n) == {m \in 1..Len(ast) : ast[m].parent = n}

RECURSIVE EventsOf(_, _)
RECURSIVE EventsOfAll(_, _)
EventsOf(ast, n) ==
  <<[ev |-> "enter", node |-> n]>> \o EventsOfAll(ast, Children(ast, n))
    \o <<[ev |-> "exit", node |-> n]>>

EventsOfAll(ast, kids) ==
  IF kids = {} THEN <<>>
  ELSE LET first == CHOOSE m \in kids : \A o \in kids : m <= o
       IN  EventsOf(ast, first) \o EventsOfAll(ast, kids \ {first})

\* traverse(ast, ...) visits what is below the File node: the Program
TraverseEvents(ast) == IF ast = <<>> THEN <<>> ELSE EventsOf(ast, 1)

\* ------------------------------------------------------------------------
\* The Fix Naming command (runFixNaming) as a state machine: one action per
\* stretch of code between two awaited answers of the user.
\* ------------------------------------------------------------------------
\* how many host calls (applyEdit, save) of one run may fail
MaxHostFailures == 2

VARIABLES
  src,            \* index in Sources of the file in the active editor
  hasEditor,      \* vscode.window.activeTextEditor is set
  isUntitled,     \* document.isUntitled
  docText,        \* the host document's text
  isDirty,        \* document.isDirty
  diskText,       \* the text last persisted by the host
  pc,             \* where the command is suspended
  code,           \* const code = document.getText()
  namingStyle,
  found,
  scopeStack,
  walk,           \* index of the next event of the traversal
  proceedMode,
  currentCode,
  totalApplied,
  idx,            \* index in found of the candidate under review
  updatedCode,    \* the text the diff preview shows
  previews,       \* number of diff previews opened
  msgs,           \* messages shown, in order
  appliedPairs,   \* the (original, finalName) pairs counted as applied
  summary,        \* <<totalApplied, totalSkipped>> once reported
  responses,      \* the user's answers, in order
  hostLog,        \* applyEdit / save calls with their outcome, in order
  eslintConfig,   \* what hasESLintConfig finds in the workspace folder
  fixedCode,      \* the fixedCode of lintAndFixCode
  toolLog,        \* parser, linter and preview calls, in order
  call,           \* a function of the utilities and its arguments
  ret             \* what the call returned

vars ==
  <<src, hasEditor, isUntitled, docText, isDirty, diskText, pc, code,
    namingStyle, found, scopeStack, walk, proceedMode, currentCode,
    totalApplied, appliedPairs, idx, updatedCode, previews, msgs, summary,
    responses, hostLog, eslintConfig, fixedCode, toolLog, call, ret>>

\* the state of the other commands and of calls made outside any command
lintVars == <<eslintConfig, fixedCode, toolLog>>

pureVars == <<call, ret>>

NoCall == [fn |-> "none"]

NoRet == [done |-> FALSE, value |-> <<>>]

hostVars == <<docText, isDirty, diskText, hostLog>>

engineVars ==
  <<namingStyle, found, scopeStack, walk, proceedMode, currentCode,
    totalApplied, appliedPairs, idx, updatedCode, previews, summary>>

Source == Sources[src]

\* a host call resolves true, resolves false or rejects
HostResults == {"ok", "false", "reject"}

HostFailures(log) == Cardinality({i \in 1..Len(log) : log[i].res # "ok"})

\* the outcomes the host may produce for the next call
MayResult(log) ==
  IF HostFailures(log) < MaxHostFailures THEN HostResults ELSE {"ok"}

Answer(prompt, answer, name) ==
  [prompt |-> prompt, answer |-> answer, name |-> name]

\* nothing has run yet: the locals of the commands are unset and nothing
\* has been shown, answered or asked of the host
Fresh ==
  /\ code = <<>>
  /\ namingStyle = "none"
  /\ found = <<>>
  /\ scopeStack = <<>>
  /\ walk = 0
  /\ proceedMode = "none"
  /\ currentCode = <<>>
  /\ totalApplied = 0
  /\ appliedPairs = <<>>
  /\ idx = 0
  /\ updatedCode = <<>>
  /\ previews = 0
  /\ msgs = <<>>
  /\ summary = <<>>
  /\ responses = <<>>
  /\ hostLog = <<>>
  /\ fixedCode = <<>>
  /\ toolLog = <<>>

\* the editor and the document a command is invoked on
Editor(sources) ==
  /\ src \in sources
  /\ hasEditor \in BOOLEAN
  /\ isUntitled \in BOOLEAN
  /\ isDirty \in BOOLEAN
  /\ docText = Sources[src].text
  /\ diskText = IF isDirty
                THEN SubSeq(Sources[src].text, 1, Len(Sources[src].text) - 1)
                ELSE Sources[src].text

Init ==
  /\ Editor(1..Len(Sources))
  /\ Fresh
  /\ pc = "start"
  /\ eslintConfig = "configFile"
  /\ call = NoCall
  /\ ret = NoRet

\* ---- the host document ---------------------------------------------------
\* document.save(): persists the text when it resolves true
HostSave(doc, res) ==
  [docText |-> doc.docText,
   isDirty |-> IF res = "ok" THEN FALSE ELSE doc.isDirty,
   diskText |-> IF res = "ok" THEN doc.docText ELSE doc.diskText,
   hostLog |-> Append(doc.hostLog, [op |-> "save", res |-> res])]

\* workspace.applyEdit of edit.replace(fileUri, fullRange, newCode) with
\* fullRange = positionAt(0) .. positionAt(oldCode.length)
HostApplyEdit(doc, oldCode, newCode, res) ==
  [docText |-> IF res = "ok"
               THEN newCode \o SliceFrom(doc.docText, Len(oldCode) + 1)
               ELSE doc.docText,
   isDirty |-> IF res = "ok" THEN TRUE ELSE doc.isDirty,
   diskText |-> doc.diskText,
   hostLog |-> Append(doc.hostLog, [op |-> "applyEdit", res |-> res])]

Doc == [docText |-> docText, isDirty |-> isDirty, diskText |-> diskText,
        hostLog |-> hostLog]

\* applyWorkspaceEdit: success is "nothing was thrown"
applyWorkspaceEdit(doc, oldCode, newCode, editRes, saveRes) ==
  LET edited == HostApplyEdit(doc, oldCode, newCode, editRes)
      saved == HostSave(edited, saveRes)
  IN  IF editRes = "reject"
      THEN [doc |-> edited, success |-> FALSE,
            shown |-> <<"Failed to apply changes">>]
      ELSE IF saveRes = "reject"
           THEN [doc |-> saved, success |-> FALSE,
                 shown |-> <<"Failed to apply changes">>]
           ELSE [doc |-> saved, success |-> TRUE, shown |-> <<>>]

SetDoc(doc) ==
  /\ docText' = doc.docText
  /\ isDirty' = doc.isDirty
  /\ diskText' = doc.diskText
  /\ hostLog' = doc.hostLog

\* the save gate taking only the "Cancel" button for a refusal
SaveDeclined_CancelOnly(answer) == answer = "Cancel"

\* if (shouldSave !== "Save and Continue") return;
SaveDeclined(answer) == answer # "Save and Continue"

\* ---- runFixNaming up to its first prompt ---------------------------------
Start ==
  /\ pc = "start"
  /\ IF ~hasEditor
     THEN /\ msgs' = Append(msgs, "No active file")
          /\ pc' = "done"
          /\ code' = code
     ELSE /\ code' = docText
          /\ IF isUntitled
             THEN /\ msgs' = Append(msgs, "Please save the file first")
                  /\ pc' = "done"
             ELSE /\ msgs' = msgs
                  /\ pc' = IF isDirty THEN "askSave" ELSE "askStyle"
  /\ UNCHANGED <<lintVars, pureVars, src, hasEditor, isUntitled,
                 hostVars, engineVars, responses>>

\* "This file has unsaved changes. Please save before continuing."
AnswerSave ==
  /\ pc = "askSave"
  /\ \E save \in {"Save and Continue", "Cancel", "undefined"} :
       /\ responses' = Append(responses, Answer("save", save, <<>>))
       /\ IF SaveDeclined(save)
          THEN /\ pc' = "done"
               /\ UNCHANGED hostVars
          ELSE \E res \in MayResult(hostLog) :
                 /\ SetDoc(HostSave(Doc, res))
                 /\ pc' = IF res = "reject" THEN "threw" ELSE "askStyle"
  /\ UNCHANGED <<lintVars, pureVars, src, hasEditor, isUntitled,
                 code, engineVars, msgs>>

\* promptForNamingStyle answered; findNamingMismatches up to the traversal
AnswerStyle ==
  /\ pc = "askStyle"
  /\ \E style \in NamingStyles \cup {"undefined"} :
       /\ responses' = Append(responses, Answer("style", style, <<>>))
       /\ IF style = "undefined"
          THEN /\ pc' = "done"
               /\ UNCHANGED <<namingStyle, found, scopeStack, walk, msgs>>
          ELSE /\ namingStyle' = style
               /\ scopeStack' = <<>>
               /\ IF Source.languageId = "python"
                  THEN \E extracted \in BOOLEAN :
                         /\ found' = collectExtracted(
                              IF extracted THEN Source.extracted ELSE <<>>,
                              style, <<>>)
                         /\ msgs' = IF extracted THEN msgs
                                    ELSE Append(msgs, "Failed to parse Python file")
                         /\ pc' = "found"
                         /\ walk' = walk
                  ELSE IF Source.languageId = "csharp"
                  THEN \E extracted \in BOOLEAN :
                         /\ found' = collectExtracted(
                              IF extracted THEN Source.extracted ELSE <<>>,
                              style, <<>>)
                         /\ msgs' = IF extracted THEN msgs
                                    ELSE Append(msgs, "Failed to parse C# file")
                         /\ pc' = "found"
                         /\ walk' = walk
                  ELSE IF ~Source.parses
                  THEN /\ msgs' = Append(msgs, "Could not parse the file")
                       /\ found' = <<>>
                       /\ pc' = "found"
                       /\ walk' = walk
                  ELSE /\ found' = <<>>
                       /\ msgs' = msgs
                       /\ walk' = 1
                       /\ pc' = "traverse"
  /\ UNCHANGED <<lintVars, pureVars, src, hasEditor, isUntitled,
                 hostVars, code, proceedMode,
                 currentCode, totalApplied, appliedPairs, idx, updatedCode,
                 previews, summary>>

\* ---- traverse(ast, {enter, exit, VariableDeclarator, FunctionDeclaration})
Events == TraverseEvents(Source.ast)

\* enter(path) and then the visitor of the node's type
VisitEnter ==
  /\ pc = "traverse"
  /\ walk <= Len(Events)
  /\ Events[walk].ev = "enter"
  /\ LET node == Source.ast[Events[walk].node]
         pushed == Append(scopeStack, Source.bindings[node.scope])
     IN  /\ scopeStack' = pushed
         /\ found' =
              IF node.type = "VariableDeclarator"
              THEN handleBinding(node.name, pushed, namingStyle, found)
              ELSE IF node.type = "FunctionDeclaration" /\ node.name # <<>>
              THEN handleBinding(node.name, pushed, namingStyle, found)
              ELSE found
  /\ walk' = walk + 1
  /\ UNCHANGED <<lintVars, pureVars, src, hasEditor, isUntitled,
                 hostVars, pc, code, namingStyle,
                 proceedMode, currentCode, totalApplied, appliedPairs, idx,
                 updatedCode, previews, msgs, summary, responses>>

\* exit(path); the traversal returns after the exit of the Program
VisitExit ==
  /\ pc = "traverse"
  /\ walk <= Len(Events)
  /\ Events[walk].ev = "exit"
  /\ scopeStack' = SubSeq(scopeStack, 1, Len(scopeStack) - 1)
  /\ walk' = walk + 1
  /\ pc' = IF walk = Len(Events) THEN "found" ELSE "traverse"
  /\ UNCHANGED <<lintVars, pureVars, src, hasEditor, isUntitled,
                 hostVars, code, namingStyle,
                 found, proceedMode, currentCode, totalApplied, appliedPairs,
                 idx, updatedCode, previews, msgs, summary, responses>>

\* runFixNaming after findNamingMismatches returned, up to the proceed prompt
AfterFind ==
  /\ pc = "found"
  /\ IF Len(found) = 0
     THEN /\ pc' = "done"
          /\ msgs' = IF Source.languageId \in {"python", "csharp"}
                     THEN msgs
                     ELSE Append(msgs, "All names follow")
     ELSE /\ pc' = "askProceed"
          /\ msgs' = msgs
  /\ UNCHANGED <<lintVars, pureVars, src, hasEditor, isUntitled,
                 hostVars, code, engineVars,
                 responses>>

\* the end of proceedWithRenaming: the totals
Report(applied) ==
  IF applied > 0 \/ Len(found) - applied > 0
  THEN <<applied, Len(found) - applied>>
  ELSE <<>>

\* "How would you like to proceed with the suggestions?"
AnswerProceed ==
  /\ pc = "askProceed"
  /\ \E mode \in {"Apply All", "Review Individually", "Cancel", "undefined"} :
       /\ responses' = Append(responses, Answer("proceed", mode, <<>>))
       /\ IF mode \in {"Cancel", "undefined"}
          THEN /\ pc' = "done"
               /\ UNCHANGED <<proceedMode, currentCode, totalApplied, idx,
                              updatedCode, previews>>
          ELSE /\ proceedMode' = mode
               /\ currentCode' = code
               /\ totalApplied' = 0
               /\ previews' = previews + 1
               /\ IF mode = "Apply All"
                  THEN /\ updatedCode' = applyAllChanges(code, found)
                       /\ idx' = idx
                       /\ pc' = "confirmAll"
                  ELSE /\ updatedCode' =
                            applyChange(code, found[1].original,
                                        found[1].suggestion)
                       /\ idx' = 1
                       /\ pc' = "askName"
  /\ UNCHANGED <<lintVars, pureVars, src, hasEditor, isUntitled,
                 hostVars, code, namingStyle,
                 found, scopeStack, walk, appliedPairs, msgs, summary>>

\* the gate testing for the "Cancel" button only: a dismissed prompt applies
Declined_CancelOnly(confirm) == confirm = "Cancel"

\* if (confirm !== "Apply All Now") { close the preview; return; }
Declined(confirm) == confirm # "Apply All Now"

\* "Apply all N renaming changes?"
AnswerConfirm ==
  /\ pc = "confirmAll"
  /\ \E confirm \in {"Apply All Now", "Cancel", "undefined"} :
       /\ responses' = Append(responses, Answer("confirm", confirm, <<>>))
       /\ pc' = "done"
       /\ IF Declined(confirm)
          THEN UNCHANGED <<hostVars, totalApplied, appliedPairs, msgs, summary>>
          ELSE \E editRes \in MayResult(hostLog) :
               \E saveRes \in MayResult(
                     Append(hostLog, [op |-> "applyEdit", res |-> editRes])) :
                 LET r == applyWorkspaceEdit(Doc, currentCode, updatedCode,
                                             editRes, saveRes)
                     applied == IF r.success THEN Len(found) ELSE totalApplied
                 IN  /\ SetDoc(r.doc)
                     /\ totalApplied' = applied
                     /\ appliedPairs' =
                          IF r.success
                          THEN [i \in 1..Len(found) |->
                                  [original |-> found[i].original,
                                   finalName |-> found[i].suggestion]]
                          ELSE appliedPairs
                     /\ msgs' = msgs \o r.shown
                     /\ summary' = Report(applied)
  /\ UNCHANGED <<lintVars, pureVars, src, hasEditor, isUntitled,
                 code, namingStyle, found,
                 scopeStack, walk, proceedMode, currentCode, idx, updatedCode,
                 previews>>

\* the names the file binds at its top level and the run leaves as they
\* are, which a reviewer may type too
BoundNames(source) ==
  IF source.bindings = <<>> THEN {}
  ELSE source.bindings[1] \ {found[i].original : i \in 1..Len(found)}

\* names a reviewer may type instead of the suggestion
CustomNames == {<<"r","e","n","a","m","e","d">>}

\* what the input box can resolve to for a candidate: undefined (dismissed)
\* or the submitted text
NameInputs(selection) ==
  {Answer("name", "undefined", <<>>)}
    \cup {Answer("name", "submitted", n) :
            n \in {selection.suggestion, selection.original, <<>>}
                    \cup CustomNames \cup BoundNames(Source)}

\* if (!customName || customName === selection.original) continue;
SkipName(answer, customName, original) ==
  answer = "undefined" \/ customName = <<>> \/ customName = original

\* `Rename "<original>" to:` answered: the rest of this iteration of the
\* review loop, and the next iteration up to its prompt (or the end)
AnswerName ==
  /\ pc = "askName"
  /\ \E input \in NameInputs(found[idx]) :
     \E editRes \in MayResult(hostLog) :
     \E saveRes \in MayResult(
           Append(hostLog, [op |-> "applyEdit", res |-> editRes])) :
       LET selection == found[idx]
           customName == input.name
           skip == SkipName(input.answer, customName, selection.original)
           confirmedCode == applyChange(currentCode, selection.original,
                                        customName)
           r == IF skip
                THEN [doc |-> Doc, success |-> FALSE, shown |-> <<>>]
                ELSE applyWorkspaceEdit(Doc, currentCode, confirmedCode,
                                        editRes, saveRes)
           nextCode == IF r.success THEN confirmedCode ELSE currentCode
           applied == IF r.success THEN totalApplied + 1 ELSE totalApplied
       IN  /\ responses' = Append(responses, input)
           /\ SetDoc(r.doc)
           /\ msgs' = msgs \o r.shown
           /\ currentCode' = nextCode
           /\ totalApplied' = applied
           /\ appliedPairs' =
                IF r.success
                THEN Append(appliedPairs, [original |-> selection.original,
                                           finalName |-> customName])
                ELSE appliedPairs
           /\ IF idx < Len(found)
              THEN /\ idx' = idx + 1
                   /\ updatedCode' =
                        applyChange(nextCode, found[idx + 1].original,
                                    found[idx + 1].suggestion)
                   /\ previews' = previews + 1
                   /\ summary' = summary
                   /\ pc' = "askName"
              ELSE /\ summary' = Report(applied)
                   /\ pc' = "done"
                   /\ UNCHANGED <<idx, updatedCode, previews>>
  /\ UNCHANGED <<lintVars, pureVars, src, hasEditor, isUntitled,
                 code, namingStyle, found,
                 scopeStack, walk, proceedMode>>

Next ==
  \/ Start
  \/ AnswerSave
  \/ AnswerStyle
  \/ VisitEnter
  \/ VisitExit
  \/ AfterFind
  \/ AnswerProceed
  \/ AnswerConfirm
  \/ AnswerName

Spec == Init /\ [][Next]_vars

\* ------------------------------------------------------------------------
\* The Lint for Errors command (runLintErrors)
\* ------------------------------------------------------------------------
\* document.fileName of a source, by its language
FileName(source) ==
  IF source.languageId = "javascript" THEN <<"a", ".", "j", "s">>
  ELSE IF source.languageId = "python" THEN <<"a", ".", "p", "y">>
  ELSE <<"a", ".", "c", "s">>

\* String.prototype.endsWith
EndsWith(s, suffix) ==
  /\ Len(suffix) <= Len(s)
  /\ SubSeq(s, Len(s) - Len(suffix) + 1, Len(s)) = suffix

supportedExtensions ==
  << <<".", "j", "s">>, <<".", "t", "s">>, <<".", "j", "s", "x">>,
     <<".", "t", "s", "x">> >>

isSupportedFile(filePath) ==
  \E i \in 1..Len(supportedExtensions) :
    EndsWith(filePath, supportedExtensions[i])

\* what the workspace folder holds: one of the eight configuration files;
\* none of them but a package.json with an eslintConfig entry, without one,
\* that JSON.parse rejects or that cannot be read; neither
ConfigStates ==
  {"configFile", "pkgEntry", "pkgNoEntry", "pkgMalformed", "pkgUnreadable",
   "none"}

\* a configuration check satisfied by any package.json
hasESLintConfig_AnyPackage(workspace) == workspace # "none"

hasESLintConfig(workspace) ==
  IF workspace = "configFile" THEN TRUE
  ELSE IF workspace = "none" THEN FALSE
  ELSE IF workspace \in {"pkgMalformed", "pkgUnreadable"} THEN FALSE
  ELSE workspace = "pkgEntry"

\* eslint.lintText: no output (nothing fixed), an output, or an exception
LintOutcomes == {"noOutput", "fixed", "throws"}

\* a text ESLint returns as output: the code with a semicolon added
EslintOutput(text) == Append(text, ";")

\* fixedCode: result.output ?? code
lintAndFixCode(text, outcome) ==
  IF outcome = "fixed" THEN EslintOutput(text) ELSE text

\* runLintErrors from isSupportedFile on, up to the prompt of the preview
\* what awaiting executeCommand("vscode.diff", ...) can come to: the editor
\* opened, or the promise rejected
DiffResults == {"ok", "reject"}

LintBody(outcome) ==
  IF ~isSupportedFile(FileName(Source))
  THEN /\ msgs' = Append(msgs, "Unsupported file type")
       /\ pc' = "done"
       /\ UNCHANGED <<code, fixedCode, toolLog>>
  ELSE IF ~hasESLintConfig(eslintConfig)
  THEN /\ msgs' = Append(msgs, "ESLint config not found")
       /\ pc' = "done"
       /\ UNCHANGED <<code, fixedCode, toolLog>>
  ELSE /\ code' = docText
       /\ IF outcome = "throws"
          THEN /\ toolLog' = Append(toolLog, "lint")
               /\ msgs' = Append(msgs, "ESLint failed")
               /\ pc' = "done"
               /\ fixedCode' = fixedCode
          ELSE /\ fixedCode' = lintAndFixCode(docText, outcome)
               /\ IF lintAndFixCode(docText, outcome) = docText
                  THEN /\ toolLog' = toolLog \o <<"lint", "publish">>
                       /\ msgs' = Append(msgs, "No lint fixes needed")
                       /\ pc' = "done"
                  ELSE /\ toolLog' = toolLog \o
                            <<"lint", "publish", "register", "diff">>
                       /\ \E shown \in DiffResults :
                            IF shown = "reject"
                            THEN /\ msgs' = Append(msgs, "ESLint failed")
                                 /\ pc' = "done"
                            ELSE /\ msgs' = msgs
                                 /\ pc' = "lintAskApply"

LintStart ==
  /\ pc = "lintStart"
  /\ IF ~hasEditor
     THEN /\ msgs' = Append(msgs, "No active file")
          /\ pc' = "done"
          /\ UNCHANGED <<code, fixedCode, toolLog>>
     ELSE IF isUntitled
     THEN /\ msgs' = Append(msgs, "Please save the file first")
          /\ pc' = "done"
          /\ UNCHANGED <<code, fixedCode, toolLog>>
     ELSE IF isDirty
     THEN /\ pc' = "lintAskSave"
          /\ UNCHANGED <<msgs, code, fixedCode, toolLog>>
     ELSE \E outcome \in LintOutcomes : LintBody(outcome)
  /\ UNCHANGED <<pureVars, src, hasEditor, isUntitled, eslintConfig,
                 hostVars, engineVars, responses>>

\* "This file has unsaved changes. Please save before continuing."
LintAnswerSave ==
  /\ pc = "lintAskSave"
  /\ \E shouldSave \in {"Save and Continue", "Cancel", "undefined"} :
       /\ responses' = Append(responses, Answer("save", shouldSave, <<>>))
       /\ IF SaveDeclined(shouldSave)
          THEN /\ pc' = "done"
               /\ UNCHANGED <<hostVars, msgs, code, fixedCode, toolLog>>
          ELSE \E res \in MayResult(hostLog) :
                 /\ SetDoc(HostSave(Doc, res))
                 /\ IF res = "reject"
                    THEN /\ pc' = "threw"
                         /\ UNCHANGED <<msgs, code, fixedCode, toolLog>>
                    ELSE \E outcome \in LintOutcomes : LintBody(outcome)
  /\ UNCHANGED <<pureVars, src, hasEditor, isUntitled, eslintConfig,
                 engineVars>>

\* a gate that applies unless the "Cancel" button was pressed
ApplyChosen_NotCancel(userChoice) == userChoice # "Cancel"

\* if (userChoice === 'Apply & Save')
ApplyChosen(userChoice) == userChoice = "Apply & Save"

\* "Apply ESLint fixes and save file?": the rest of showDiffPreview, then
\* applyFixes and the second lint
LintAnswerApply ==
  /\ pc = "lintAskApply"
  /\ \E userChoice \in {"Apply & Save", "Cancel", "undefined"} :
       LET closed == toolLog \o <<"dispose", "reopen">>
       IN
       /\ responses' = Append(responses, Answer("apply", userChoice, <<>>))
       /\ pc' = "done"
       /\ IF ~ApplyChosen(userChoice)
          THEN /\ toolLog' = closed
               /\ msgs' = Append(msgs, "No changes applied")
               /\ UNCHANGED hostVars
          ELSE \E editRes \in MayResult(hostLog) :
               \E saveRes \in MayResult(
                     Append(hostLog, [op |-> "applyEdit", res |-> editRes])) :
               \E relint \in LintOutcomes :
                 LET edited == HostApplyEdit(Doc, docText, fixedCode, editRes)
                     saved == HostSave(edited, saveRes)
                 IN  IF editRes = "reject"
                     THEN /\ SetDoc(edited)
                          /\ toolLog' = closed
                          /\ msgs' = Append(msgs, "ESLint failed")
                     ELSE IF saveRes = "reject"
                     THEN /\ SetDoc(saved)
                          /\ toolLog' = closed
                          /\ msgs' = Append(msgs, "ESLint failed")
                     ELSE /\ SetDoc(saved)
                          /\ IF relint = "throws"
                             THEN /\ toolLog' = closed \o <<"reopen", "lint">>
                                  /\ msgs' = msgs \o <<"ESLint fixes applied",
                                                        "ESLint failed">>
                             ELSE /\ toolLog' = closed \o
                                       <<"reopen", "lint", "publish">>
                                  /\ msgs' = msgs \o <<"ESLint fixes applied",
                                                        "ESLint fixes applied">>
  /\ UNCHANGED <<pureVars, src, hasEditor, isUntitled, eslintConfig, code,
                 fixedCode, engineVars>>

InitLint ==
  /\ Editor(1..Len(Sources))
  /\ Fresh
  /\ pc = "lintStart"
  /\ eslintConfig \in ConfigStates
  /\ call = NoCall
  /\ ret = NoRet

NextLint ==
  \/ LintStart
  \/ LintAnswerSave
  \/ LintAnswerApply

SpecLint == InitLint /\ [][NextLint]_vars

\* ------------------------------------------------------------------------
\* The Check Structure command (runStructureCheck) and its report panel
\* ------------------------------------------------------------------------
\* how many messages the report panel posts
MaxPanelMessages == 2

JsSources == {i \in 1..Len(Sources) : Sources[i].languageId = "javascript"}

FunctionNodes(source) ==
  {n \in 1..Len(source.ast) : source.ast[n].type = "FunctionDeclaration"}

\* runStructureCheck from document.getText() on: without a function
\* longestFn is undefined and generateMarkdownReport throws on longestFn.name
StructBody ==
  /\ code' = docText
  /\ IF ~Source.parses
     THEN /\ toolLog' = Append(toolLog, "parse")
          /\ msgs' = Append(msgs, "Could not parse JS file")
          /\ pc' = "done"
     ELSE IF FunctionNodes(Source) = {}
     THEN /\ toolLog' = Append(toolLog, "parse")
          /\ msgs' = msgs
          /\ pc' = "threw"
     ELSE /\ toolLog' = toolLog \o <<"parse", "report">>
          /\ msgs' = msgs
          /\ pc' = "panel"

StructStart ==
  /\ pc = "structStart"
  /\ IF ~hasEditor
     THEN /\ msgs' = Append(msgs, "No active file")
          /\ pc' = "done"
          /\ UNCHANGED <<code, toolLog>>
     ELSE IF isUntitled
     THEN /\ msgs' = Append(msgs, "Please save the file first")
          /\ pc' = "done"
          /\ UNCHANGED <<code, toolLog>>
     ELSE IF isDirty
     THEN /\ pc' = "structAskSave"
          /\ UNCHANGED <<msgs, code, toolLog>>
     ELSE StructBody
  /\ UNCHANGED <<pureVars, src, hasEditor, isUntitled, eslintConfig,
                 fixedCode, hostVars, engineVars, responses>>

\* "Unsaved changes detected. Save before analysing?"
StructAnswerSave ==
  /\ pc = "structAskSave"
  /\ \E save \in {"Save and Continue", "Cancel", "undefined"} :
       /\ responses' = Append(responses, Answer("save", save, <<>>))
       /\ IF SaveDeclined(save)
          THEN /\ pc' = "done"
               /\ UNCHANGED <<hostVars, msgs, code, toolLog>>
          ELSE \E res \in MayResult(hostLog) :
                 /\ SetDoc(HostSave(Doc, res))
                 /\ IF res = "reject"
                    THEN /\ pc' = "threw"
                         /\ UNCHANGED <<msgs, code, toolLog>>
                    ELSE StructBody
  /\ UNCHANGED <<pureVars, src, hasEditor, isUntitled, eslintConfig,
                 fixedCode, engineVars>>

PanelMessages(log) == {i \in 1..Len(log) : log[i] = "message"}

\* panel.webview.onDidReceiveMessage
StructPanelMessage ==
  /\ pc = "panel"
  /\ Cardinality(PanelMessages(toolLog)) < MaxPanelMessages
  /\ \E type \in {"jumpToLine", "exportMarkdown", "copySuccess"} :
       /\ toolLog' = Append(toolLog, "message")
       /\ msgs' = IF type = "exportMarkdown"
                  THEN Append(msgs, "Markdown report saved")
                  ELSE IF type = "copySuccess"
                  THEN Append(msgs, "Markdown copied to clipboard")
                  ELSE msgs
  /\ UNCHANGED <<pureVars, src, hasEditor, isUntitled, eslintConfig,
                 fixedCode, hostVars, engineVars, responses, pc, code>>

InitStructure ==
  /\ Editor(JsSources)
  /\ Fresh
  /\ pc = "structStart"
  /\ eslintConfig = "configFile"
  /\ call = NoCall
  /\ ret = NoRet

NextStructure ==
  \/ StructStart
  \/ StructAnswerSave
  \/ StructPanelMessage

\* ------------------------------------------------------------------------
\* The three commands of the extension, any one of them invoked
\* ------------------------------------------------------------------------
InitCommands ==
  \/ Init
  \/ InitLint
  \/ InitStructure

NextCommands ==
  \/ Next
  \/ NextLint
  \/ NextStructure

SpecCommands == InitCommands /\ [][NextCommands]_vars

\* ------------------------------------------------------------------------
\* Structure analysis, pure part: features/checkStructure.js
\* ------------------------------------------------------------------------
NL == "\n"

\* code.split("\n")
RECURSIVE SplitLines(_, _, _)
SplitLines(text, i, line) ==
  IF i > Len(text) THEN <<line>>
  ELSE IF text[i] = NL
       THEN <<line>> \o SplitLines(text, i + 1, <<>>)
       ELSE SplitLines(text, i + 1, Append(line, text[i]))

\* String.prototype.trim
RECURSIVE Trim(_)
Trim(t) ==
  IF t = <<>> THEN t
  ELSE IF t[1] \in Space THEN Trim(Tail(t))
  ELSE IF t[Len(t)] \in Space THEN Trim(SubSeq(t, 1, Len(t) - 1))
  ELSE t

\* String.prototype.startsWith
StartsWith(t, prefix) ==
  Len(prefix) <= Len(t) /\ SubSeq(t, 1, Len(prefix)) = prefix

\* the decimal digits of a natural number
RECURSIVE Decimal(_)
Decimal(n) ==
  LET digits == <<"0","1","2","3","4","5","6","7","8","9">>
  IN  IF n < 10 THEN <<digits[n + 1]>>
      ELSE Append(Decimal(n \div 10), digits[(n % 10) + 1])

NaN == <<"N", "a", "N">>

\* (num / den).toFixed(1) for naturals num and den: 0 / 0 is NaN; a value
\* halfway between two tenths goes to the larger one
ToFixed1(num, den) ==
  IF den = 0
  THEN IF num = 0 THEN NaN ELSE <<"I","n","f","i","n","i","t","y">>
  ELSE LET tenths == (20 * num + den) \div (2 * den)
       IN  Decimal(tenths \div 10) \o <<".">> \o Decimal(tenths % 10)

RECURSIVE SumLines(_)
SumLines(functions) ==
  IF functions = <<>> THEN 0
  ELSE functions[1].lines + SumLines(Tail(functions))

calculateAverageFunctionLength(functions) ==
  ToFixed1(SumLines(functions), Len(functions))

IsCommentLine(l) ==
  \/ StartsWith(Trim(l), <<"/", "/">>)
  \/ StartsWith(Trim(l), <<"/", "*">>)
  \/ StartsWith(Trim(l), <<"*">>)

calculateCommentDensity(text, lines) ==
  LET split == SplitLines(text, 1, <<>>)
      commentLines ==
        Cardinality({n \in 1..Len(split) : IsCommentLine(split[n])})
  IN  ToFixed1(commentLines * 100, lines)

\* codeBlock.replace(/\s+/g, " ").trim()
cleanCodeBlock(codeBlock) == Trim(ReplaceRuns(codeBlock, 1, Space, " "))

\* the SHA-256 digest of a block, taken to be free of collisions
generateCodeHash(codeBlock) == <<"s", "h", "a", ":">> \o codeBlock

\* the lines left by .map(trim).filter(not "}" and not "")
CodeBlocks(text) ==
  LET split == SplitLines(text, 1, <<>>)
  IN  SelectSeq([n \in 1..Len(split) |->
                   [lineNumber |-> n, code |-> Trim(split[n])]],
                LAMBDA block : block.code # <<"}">> /\ block.code # <<>>)

\* codeBlocks.forEach from block k on; hashes maps a digest to a line
RECURSIVE ScanBlocks(_, _, _, _)
ScanBlocks(codeBlocks, k, hashes, duplicates) ==
  IF k > Len(codeBlocks) THEN duplicates
  ELSE LET block == codeBlocks[k]
           cleanedBlock == cleanCodeBlock(block.code)
           blockHash == generateCodeHash(cleanedBlock)
       IN  IF blockHash \in DOMAIN hashes
           THEN ScanBlocks(codeBlocks, k + 1, hashes,
                  Append(duplicates,
                         [block |-> cleanedBlock,
                          firstOccurrence |-> hashes[blockHash],
                          secondOccurrence |-> block.lineNumber]))
           ELSE ScanBlocks(codeBlocks, k + 1,
                  [h \in DOMAIN hashes \cup {blockHash} |->
                     IF h = blockHash THEN block.lineNumber ELSE hashes[h]],
                  duplicates)

checkCodeDuplication(text) ==
  ScanBlocks(CodeBlocks(text), 1, [h \in {} |-> 0], <<>>)

\* ---- calculateHealthScore ---------------------------------------------------
MathMin(a, b) == IF a < b THEN a ELSE b

MathMax(a, b) == IF a > b THEN a ELSE b

\* Math.floor(lines / 1000)
sizeFactor(lines) == lines \div 1000

maxTopLevelFunctions(lines) == MathMin(30, 10 + sizeFactor(lines))

maxLargeFunctions(lines) == MathMin(15, 5 + sizeFactor(lines))

maxUndocumented(lines) == MathMin(15, sizeFactor(lines) + 2)

\* the arrays are held by their lengths
issueCount(functionsData, duplicateCode, deadCode, lines) ==
  LET topLevelFunctionIssue ==
        IF functionsData.topLevelFunctions > maxTopLevelFunctions(lines)
        THEN 1 ELSE 0
      largeFunctionIssue ==
        IF functionsData.largeFunctions > maxLargeFunctions(lines)
        THEN 1 ELSE 0
      undocumentedIssue ==
        IF functionsData.undocumented > maxUndocumented(lines) THEN 1 ELSE 0
      duplicationPenalty == IF duplicateCode > 0 THEN 1 ELSE 0
      deadCodePenalty ==
        (deadCode.unusedVariables + deadCode.unusedFunctions) \div 2
  IN  topLevelFunctionIssue + largeFunctionIssue + undocumentedIssue
        + duplicationPenalty + deadCodePenalty

\* calculateHealthScore without Math.max(0, ...)
calculateHealthScore_Unclamped(functionsData, duplicateCode, deadCode, lines) ==
  100 - issueCount(functionsData, duplicateCode, deadCode, lines) * 15

calculateHealthScore(functionsData, duplicateCode, deadCode, lines) ==
  MathMax(0, 100 - issueCount(functionsData, duplicateCode, deadCode, lines) * 15)

\* ---- checkDeadCode ---------------------------------------------------------
\* Set.prototype.add on a set kept in insertion order
AddOnce(seq, x) ==
  IF \E i \in 1..Len(seq) : seq[i] = x THEN seq ELSE Append(seq, x)

Has(seq, x) == \E i \in 1..Len(seq) : seq[i] = x

\* path.scope.hasBinding(name): the scopes of the node and of its ancestors
RECURSIVE hasBinding(_, _, _)
hasBinding(source, n, name) ==
  IF n = 0 THEN FALSE
  ELSE \/ name \in source.bindings[source.ast[n].scope]
       \/ hasBinding(source, source.ast[n].parent, name)

\* the inner traverse of the FunctionDeclaration visitor: a call whose
\* callee is an identifier of that name (held in the node's name here)
IsCalled(source, functionName) ==
  \E m \in 1..Len(source.ast) :
    /\ source.ast[m].type = "CallExpression"
    /\ source.ast[m].name = functionName

\* the visitors of checkDeadCode run on the nodes from n on, in the order
\* traverse enters them
RECURSIVE DeadCodeVisit(_, _, _)
DeadCodeVisit(source, n, sets) ==
  IF n > Len(source.ast) THEN sets
  ELSE LET node == source.ast[n]
       IN  DeadCodeVisit(source, n + 1,
             IF node.type = "VariableDeclarator"
             THEN [sets EXCEPT !.variableDeclarations =
                     AddOnce(@, node.name)]
             ELSE IF node.type = "FunctionDeclaration"
             THEN [sets EXCEPT
                     !.functionDeclarations = AddOnce(@, node.name),
                     !.functionCalls =
                       IF IsCalled(source, node.name)
                       THEN AddOnce(@, node.name) ELSE @]
             ELSE IF /\ node.type = "Identifier"
                     /\ hasBinding(source, n, node.name)
                     /\ Has(sets.variableDeclarations, node.name)
             THEN [sets EXCEPT !.variableAccesses = AddOnce(@, node.name)]
             ELSE sets)

checkDeadCode(source) ==
  LET sets == DeadCodeVisit(source, 1,
                [variableDeclarations |-> <<>>, variableAccesses |-> <<>>,
                 functionDeclarations |-> <<>>, functionCalls |-> <<>>])
  IN  [unusedVariables |->
         SelectSeq(sets.variableDeclarations,
                   LAMBDA variable : ~Has(sets.variableAccesses, variable)),
       unusedFunctions |->
         SelectSeq(sets.functionDeclarations,
                   LAMBDA func : ~Has(sets.functionCalls, func))]

\* ------------------------------------------------------------------------
\* The exported functions called on their own, as the unit tests call them:
\* the arguments are drawn from bounded sets, one action per function.
\* ------------------------------------------------------------------------
\* no command is running
NoCommand ==
  /\ src = 1
  /\ hasEditor = FALSE
  /\ isUntitled = FALSE
  /\ isDirty = FALSE
  /\ docText = <<>>
  /\ diskText = <<>>
  /\ pc = "idle"
  /\ eslintConfig = "configFile"
  /\ Fresh

commandVars ==
  <<src, hasEditor, isUntitled, hostVars, pc, code, engineVars, msgs,
    responses, lintVars>>

\* longest text put before and after a name
MaxPadLen == 1

\* a letter, a digit, an underscore, a dollar sign, a blank, a dot
PadChars == {"x", "1", "_", "$", " ", "."}

RECURSIVE SeqsUpTo(_, _)
SeqsUpTo(chars, n) ==
  IF n = 0 THEN {<<>>}
  ELSE LET shorter == SeqsUpTo(chars, n - 1)
       IN  shorter \cup {Append(t, c) : t \in shorter, c \in chars}

Pads == SeqsUpTo(PadChars, MaxPadLen)

\* originals of candidates, as handleBinding makes them
ReplaceNames == {<<"m","y","_","v","a","r">>, <<"a","_","b">>}

ApplyChangeCalls ==
  {[fn |-> "applyChange", pre |-> pre, original |-> original, post |-> post,
    suggestion |-> toCamelCase(original)] :
      pre \in Pads, original \in ReplaceNames, post \in Pads}

\* longest name handed to a case transformer
MaxNameLen == 4

\* a lower-case letter, an upper-case letter, a digit, the separators
NameChars == {"a", "B", "1", "_", "-", " "}

\* the names of the bounded alphabet and the name the unit test converts
CaseNames ==
  SeqsUpTo(NameChars, MaxNameLen) \cup {<<"m","y","V","a","r","i","a","b","l","e","N","a","m","e">>}

CaseCalls ==
  {[fn |-> fn, name |-> name] :
     fn \in {"toSnakeCase", "toCamelCase"}, name \in CaseNames}

\* most functions of an analysed file, longest of them, most lines of a text
MaxFunctions == 3

MaxFnLines == 2

MaxLines == 3

\* allFunctions as analyseCodeStructure collects it; only lines is read
FunctionLists ==
  UNION {[1..n -> [lines : 0..MaxFnLines]] : n \in 0..MaxFunctions}

\* lines of a file: blank, a closing brace, a statement written with
\* two spacings, comments
LineSamples ==
  {<<>>, <<" ", "}">>, <<"x", " ", "=", " ", "1">>,
   <<" ", "x", " ", " ", "=", " ", "1", " ">>, <<"/", "/", "c">>,
   <<" ", "*", "c">>}

RECURSIVE JoinLines(_)
JoinLines(lines) ==
  IF Len(lines) = 1 THEN lines[1]
  ELSE lines[1] \o <<NL>> \o JoinLines(Tail(lines))

Texts ==
  {JoinLines(lines) :
     lines \in UNION {[1..n -> LineSamples] : n \in 1..MaxLines}}

StructureCalls ==
  {[fn |-> "calculateAverageFunctionLength", functions |-> functions] :
     functions \in FunctionLists}
  \cup {[fn |-> fn, text |-> text] :
          fn \in {"calculateCommentDensity", "checkCodeDuplication"},
          text \in Texts}

\* the names a file can declare: a letter or an underscore, then letters,
\* digits and underscores
IdentifierNames ==
  {name \in SeqsUpTo({"a", "B", "1", "_"}, MaxNameLen) :
     Len(name) > 0 /\ name[1] # "1"}

\* names around the short/common rule and names that differ in case only
ProbeNames ==
  {<<"s","u","m">>, <<"S","u","m">>, <<"S","U","M">>, <<"s","u","m","s">>,
   <<"a","v","g">>, <<"t","m","p">>, <<"i","d","x">>, <<"O","b","j">>,
   <<"m","y","_","v","a","r">>, <<"m","y","V","a","r">>,
   <<"m","y","_","V","a","r">>, <<"M","y","_","v","a","r">>}

\* the names of a file, in the order the traversal or the extractor gives
MismatchNameLists ==
  {<<name>> : name \in IdentifierNames \cup ProbeNames \cup shortCommonNames}
    \cup {pair \in {<<a, b>> : a \in ProbeNames, b \in ProbeNames} :
            pair[1] # pair[2]}

LanguagePaths == {"babel", "extracted"}

MismatchCalls ==
  {[fn |-> "findNamingMismatches", path |-> path, names |-> names,
    namingStyle |-> style] :
      path \in LanguagePaths, names \in MismatchNameLists,
      style \in NamingStyles}

\* line counts on both sides of the steps of sizeFactor, up to where every
\* threshold has reached its cap
ScoreLines == {1, 999, 1000, 5000, 13000, 20000, 30000}

\* counts on both sides of the thresholds
ScoreCalls ==
  {[fn |-> "calculateHealthScore",
    functionsData |-> [topLevelFunctions |-> top, largeFunctions |-> large,
                       undocumented |-> undoc],
    duplicateCode |-> dup,
    deadCode |-> [unusedVariables |-> uv, unusedFunctions |-> uf],
    lines |-> lines] :
      top \in {10, 11, 20, 31}, large \in {5, 6, 16}, undoc \in {2, 3, 16},
      dup \in {0, 1}, uv \in {0, 1, 4}, uf \in {0, 1, 4},
      lines \in ScoreLines}

\* a second run of the command on the text the first run wrote
RerunCalls ==
  {[fn |-> "rerunAfterApplyAll", path |-> path, names |-> names,
    namingStyle |-> style] :
      path \in LanguagePaths, names \in MismatchNameLists,
      style \in NamingStyles}

\* the files parseCodeToAST gives a tree for
DeadCodeCalls ==
  {[fn |-> "checkDeadCode", source |-> i] :
     i \in {j \in JsSources : Sources[j].parses}}

Calls ==
  ApplyChangeCalls \cup CaseCalls \cup StructureCalls \cup DeadCodeCalls
    \cup MismatchCalls \cup ScoreCalls \cup RerunCalls

Return(value) == ret' = [done |-> TRUE, value |-> value]

InitPure ==
  /\ NoCommand
  /\ call \in Calls
  /\ ret = NoRet

\* applyChange(code, original, suggestion)
CallApplyChange ==
  /\ call.fn = "applyChange"
  /\ ~ret.done
  /\ Return(applyChange(call.pre \o call.original \o call.post,
                        call.original, call.suggestion))
  /\ UNCHANGED <<commandVars, call>>

\* toSnakeCase(name)
CallToSnakeCase ==
  /\ call.fn = "toSnakeCase"
  /\ ~ret.done
  /\ Return(toSnakeCase(call.name))
  /\ UNCHANGED <<commandVars, call>>

\* toCamelCase(name)
CallToCamelCase ==
  /\ call.fn = "toCamelCase"
  /\ ~ret.done
  /\ Return(toCamelCase(call.name))
  /\ UNCHANGED <<commandVars, call>>

\* calculateAverageFunctionLength(allFunctions)
CallAverageFunctionLength ==
  /\ call.fn = "calculateAverageFunctionLength"
  /\ ~ret.done
  /\ Return(calculateAverageFunctionLength(call.functions))
  /\ UNCHANGED <<commandVars, call>>

\* calculateCommentDensity(code, lines) with lines = code.split("\n").length
CallCommentDensity ==
  /\ call.fn = "calculateCommentDensity"
  /\ ~ret.done
  /\ Return(calculateCommentDensity(
              call.text, Len(SplitLines(call.text, 1, <<>>))))
  /\ UNCHANGED <<commandVars, call>>

\* checkCodeDuplication(code)
CallCheckCodeDuplication ==
  /\ call.fn = "checkCodeDuplication"
  /\ ~ret.done
  /\ Return(checkCodeDuplication(call.text))
  /\ UNCHANGED <<commandVars, call>>

\* the traversal of a file that declares the names at its top level, one
\* declaration each: at every declarator the stack holds the bindings of the
\* program once for the program, the declaration and the declarator
RECURSIVE traverseDeclarations(_, _, _, _)
traverseDeclarations(names, bindings, style, mismatches) ==
  IF names = <<>> THEN mismatches
  ELSE traverseDeclarations(Tail(names), bindings, style,
         handleBinding(Head(names), <<bindings, bindings, bindings>>,
                       style, mismatches))

findNamingMismatches(path, names, style) ==
  IF path = "extracted" THEN collectExtracted(names, style, <<>>)
  ELSE traverseDeclarations(names, {names[i] : i \in 1..Len(names)},
                            style, <<>>)

\* findNamingMismatches(languageId, filePath, code, namingStyle, ...)
CallFindNamingMismatches ==
  /\ call.fn = "findNamingMismatches"
  /\ ~ret.done
  /\ Return(findNamingMismatches(call.path, call.names, call.namingStyle))
  /\ UNCHANGED <<commandVars, call>>

\* Fix Naming with "Apply All" accepted and applied on a file that declares
\* the names, one to a line, and then findNamingMismatches on the text
\* written, with the same style
rerunAfterApplyAll(path, names, style) ==
  LET mismatches == findNamingMismatches(path, names, style)
      written == applyAllChanges(JoinLines(names), mismatches)
  IN  findNamingMismatches(path, SplitLines(written, 1, <<>>), style)

CallRerunAfterApplyAll ==
  /\ call.fn = "rerunAfterApplyAll"
  /\ ~ret.done
  /\ Return(rerunAfterApplyAll(call.path, call.names, call.namingStyle))
  /\ UNCHANGED <<commandVars, call>>

\* calculateHealthScore(functionsData, duplicateCode, deadCode, lines)
CallCalculateHealthScore ==
  /\ call.fn = "calculateHealthScore"
  /\ ~ret.done
  /\ Return(calculateHealthScore(call.functionsData, call.duplicateCode,
                                 call.deadCode, call.lines))
  /\ UNCHANGED <<commandVars, call>>

\* checkDeadCode(ast)
CallCheckDeadCode ==
  /\ call.fn = "checkDeadCode"
  /\ ~ret.done
  /\ Return(checkDeadCode(Sources[call.source]))
  /\ UNCHANGED <<commandVars, call>>

NextPure ==
  \/ CallApplyChange
  \/ CallToSnakeCase
  \/ CallToCamelCase
  \/ CallAverageFunctionLength
  \/ CallCommentDensity
  \/ CallCheckCodeDuplication
  \/ CallCheckDeadCode
  \/ CallFindNamingMismatches
  \/ CallCalculateHealthScore
  \/ CallRerunAfterApplyAll

SpecPure == InitPure /\ [][NextPure]_vars

\* ------------------------------------------------------------------------
\* Properties
\* ------------------------------------------------------------------------
Shown(text) == \E i \in 1..Len(msgs) : msgs[i] = text

Asked(prompt) == \E i \in 1..Len(responses) : responses[i].prompt = prompt

HostCalls(log, op) == {i \in 1..Len(log) : log[i].op = op}

Last(seq) == seq[Len(seq)]

\* the answers by which the user confirms a write of renamed text
Confirmations ==
  {i \in 1..Len(responses) :
     \/ responses[i].prompt = "confirm" /\ responses[i].answer = "Apply All Now"
     \/ /\ responses[i].prompt = "name"
        /\ responses[i].answer = "submitted"
        /\ responses[i].name # <<>>}

\* the union of the binding names of the scopes of a node and its ancestors
RECURSIVE EnclosingBindings(_, _)
EnclosingBindings(source, n) ==
  IF n = 0 THEN {}
  ELSE source.bindings[source.ast[n].scope]
         \cup EnclosingBindings(source, source.ast[n].parent)

IsDeclaration(node) ==
  \/ node.type = "VariableDeclarator"
  \/ node.type = "FunctionDeclaration" /\ node.name # <<>>

\* C1: when the file cannot be parsed, the run reports only the parse error:
\* no "All names follow <style>" message, no proceed prompt, no edit.
C1_ParseFailureOnlyError ==
  Shown("Could not parse the file") =>
    /\ ~Shown("All names follow")
    /\ ~Asked("proceed")
    /\ HostCalls(hostLog, "applyEdit") = {}
    /\ docText = Source.text

\* C2: the document is edited, or saved with renamed text, only after the
\* user confirmed that step ("Apply All Now", or a submitted final name for
\* the candidate); cancelling the style choice, the proceed choice or the
\* apply-all gate ends the run with no edit.
C2_EditOnlyAfterConfirmation ==
  /\ Cardinality(HostCalls(hostLog, "applyEdit")) <= Cardinality(Confirmations)
  /\ Confirmations = {} =>
       /\ docText = Source.text
       /\ \A i \in HostCalls(hostLog, "save") :
            hostLog[i].res = "ok" => diskText = Source.text
  /\ (/\ responses # <<>>
      /\ Last(responses).prompt \in {"style", "proceed", "confirm"}
      /\ Last(responses).answer \in {"undefined", "Cancel"})
       => /\ pc = "done"
          /\ HostCalls(hostLog, "applyEdit") = {}
          /\ docText = Source.text
          /\ totalApplied = 0

C2_Witness ==
  /\ pc = "done"
  /\ HostCalls(hostLog, "applyEdit") # {}
  /\ docText # Source.text
  /\ diskText = docText

\* C3: in review mode, dismissing the custom-name input ends the session at
\* once: no later candidate is previewed or prompted for, nothing is applied.
C3_CancelEndsReview ==
  [][(/\ pc = "askName"
      /\ Len(responses') = Len(responses) + 1
      /\ Last(responses').answer = "undefined")
       => /\ pc' = "done"
          /\ previews' = previews
          /\ UNCHANGED hostVars]_vars

\* C4: in review mode, when applying or saving a candidate's rename fails,
\* the failure is reported for that attempt, the current buffer and the
\* applied count stay as they were, and the next candidate is offered with
\* its replacement computed from the last successfully applied buffer.
C4_FailedStepLeavesEngineState ==
  [][(/\ pc = "askName"
      /\ Len(hostLog') > Len(hostLog)
      /\ \E i \in (Len(hostLog) + 1)..Len(hostLog') : hostLog'[i].res # "ok")
       => /\ msgs' = Append(msgs, "Failed to apply changes")
          /\ currentCode' = currentCode
          /\ totalApplied' = totalApplied
          /\ idx < Len(found) =>
               /\ pc' = "askName"
               /\ idx' = idx + 1
               /\ updatedCode' = applyChange(currentCode, found[idx + 1].original,
                                             found[idx + 1].suggestion)]_vars

\* C5: a rename step ends with the document holding the renamed text, saved,
\* or with the document text exactly as before the step.
C5_StepAppliedAndSavedOrUntouched ==
  [][(/\ pc \in {"confirmAll", "askName"}
      /\ Len(hostLog') > Len(hostLog))
       => \/ docText' = docText
          \/ /\ docText' = IF pc = "confirmAll" THEN updatedCode
                           ELSE applyChange(currentCode, found[idx].original,
                                            Last(responses').name)
             /\ diskText' = docText'
             /\ ~isDirty']_vars

\* an occurrence of the candidate's original name at a place where a binding
\* named like the suggestion is visible
Collides(source, c) ==
  \E n \in 1..Len(source.ast) :
    /\ source.ast[n].type = "Identifier"
    /\ source.ast[n].name = c.original
    /\ c.suggestion \in EnclosingBindings(source, n)

\* C6: applying accepted candidates with their suggested names never makes a
\* renamed identifier collide with a different binding of the file that is
\* visible where the identifier is declared or used, inner scopes included.
C6_NoCollisionAfterApply ==
  \A i \in 1..Len(appliedPairs) :
    LET c == [original |-> appliedPairs[i].original,
              suggestion |-> appliedPairs[i].finalName]
    IN  (\E k \in 1..Len(found) : found[k] = c) => ~Collides(Source, c)

C8_OneCandidatePerOriginal ==
  \A i, j \in 1..Len(found) :
    found[i].original = found[j].original => i = j

\* C9: every candidate's original fails the style's validator, its
\* suggestion is the style's transform of the original, and the two differ.
C9_CandidateInvariant ==
  \A i \in 1..Len(found) :
    LET original == found[i].original
        suggestion == found[i].suggestion
    IN  /\ namingStyle = "camelCase" =>
             ~isCamelCase(original) /\ suggestion = toCamelCase(original)
        /\ namingStyle = "PascalCase" =>
             ~isPascalCase(original) /\ suggestion = toPascalCase(original)
        /\ namingStyle = "snake_case" =>
             ~isSnakeCase(original) /\ suggestion = toSnakeCase(original)
        /\ suggestion # original

C9_Witness ==
  /\ pc = "askProceed"
  /\ Source.languageId = "javascript"
  /\ Len(found) >= 2

\* the buffer after the first k candidates, each applied to the result of
\* the one before
RECURSIVE AppliedInOrder(_, _, _)
AppliedInOrder(text, cands, k) ==
  IF k = 0 THEN text
  ELSE applyChange(AppliedInOrder(text, cands, k - 1),
                   cands[k].original, cands[k].suggestion)

my_var == <<"m","y","_","v","a","r">>

myVar == <<"m","y","V","a","r">>

my_func == <<"m","y","_","f","u","n","c">>

myFunc == <<"m","y","F","u","n","c">>

\* C10: apply-all applies the candidates' whole-word replacements in
\* candidate order, each on the result of the previous one; for
\* `const my_var = 1; function my_func() {}` and camelCase the candidates are
\* my_var -> myVar and my_func -> myFunc and the buffer becomes
\* `const myVar = 1; function myFunc() {}`.
C10_ApplyAllSequential ==
  pc = "confirmAll" =>
    /\ updatedCode = AppliedInOrder(code, found, Len(found))
    /\ (Source = SrcTwoDecls /\ namingStyle = "camelCase") =>
         /\ found = <<[original |-> my_var, suggestion |-> myVar],
                      [original |-> my_func, suggestion |-> myFunc]>>
         /\ updatedCode =
              <<"c","o","n","s","t"," ","m","y","V","a","r"," ","="," ","1",";"," ","f","u","n","c","t","i","o","n"," ","m","y","F","u","n","c","(",")"," ","{","}">>

C10_Witness ==
  /\ pc = "confirmAll"
  /\ Source = SrcTwoDecls
  /\ namingStyle = "camelCase"
  /\ updatedCode # code

\* ---- C11 ------------------------------------------------------------------
IdentChar == WordChar \cup {"$"}

\* C11: whole-word replacement of an original X leaves an occurrence of X
\* unchanged when a letter, a digit, an underscore or a '$' stands right
\* before or right after it (X is then part of a longer identifier).
C11_OnlyCompleteIdentifiers ==
  (call.fn = "applyChange" /\ ret.done) =>
    LET before == call.pre # <<>> /\ Last(call.pre) \in IdentChar
        after == call.post # <<>> /\ call.post[1] \in IdentChar
    IN  (before \/ after) =>
          ret.value = call.pre \o call.original \o call.post

\* ---- C12 ------------------------------------------------------------------
\* the steps the host carried out: an accepted edit followed by a save that
\* succeeded
AcceptedSteps ==
  {i \in HostCalls(hostLog, "applyEdit") :
     /\ hostLog[i].res = "ok"
     /\ i < Len(hostLog)
     /\ hostLog[i + 1].op = "save"
     /\ hostLog[i + 1].res = "ok"}

\* C12: the reported totals satisfy applied + skipped = number of
\* candidates with 0 <= applied <= number of candidates, and a candidate is
\* counted as applied only if the host accepted its edit and the save
\* succeeded (one accepted step per candidate under review, one for all of
\* them under apply-all).
C12_TotalsCountAcceptedSteps ==
  summary # <<>> =>
    /\ summary[1] + summary[2] = Len(found)
    /\ summary[1] >= 0 /\ summary[1] <= Len(found)
    /\ IF proceedMode = "Apply All"
       THEN summary[1] > 0 => AcceptedSteps # {}
       ELSE summary[1] <= Cardinality(AcceptedSteps)

\* ---- C13 ------------------------------------------------------------------
\* the answer given to the save-or-cancel prompt, if it has been answered
SaveAnswers == {i \in 1..Len(responses) : responses[i].prompt = "save"}

\* C13: when the document is dirty and the user answers the save prompt
\* with anything other than 'Save and Continue' (Cancel, or dismissing it),
\* Fix Naming, Lint for Errors and Check Structure end as a no-op: nothing
\* is saved or edited, nothing is parsed or linted, no message is shown.
C13_CancelledSaveIsNoOp ==
  \A i \in SaveAnswers :
    responses[i].answer # "Save and Continue" =>
      /\ pc = "done"
      /\ Len(responses) = 1
      /\ hostLog = <<>>
      /\ docText = Source.text /\ isDirty /\ diskText # docText
      /\ toolLog = <<>>
      /\ namingStyle = "none" /\ found = <<>> /\ walk = 0
      /\ fixedCode = <<>>
      /\ previews = 0
      /\ msgs = <<>>

\* a command has ended at its save prompt, cancelled or dismissed
C13_Witness ==
  /\ SaveAnswers # {}
  /\ responses[1].answer \in {"Cancel", "undefined"}
  /\ pc = "done"

\* ---- C14 ------------------------------------------------------------------
Logged(event) == \E i \in 1..Len(toolLog) : toolLog[i] = event

\* the run got past the editor, untitled, save and file type checks
ReachedConfigCheck ==
  /\ pc = "done"
  /\ hasEditor /\ ~isUntitled
  /\ \A i \in SaveAnswers : responses[i].answer = "Save and Continue"
  /\ Source.languageId = "javascript"

\* C14: when the workspace holds no ESLint configuration file and no
\* package.json with an eslintConfig entry (a package.json that is
\* malformed or unreadable included), Lint for Errors never invokes the
\* linter, publishes no diagnostics, makes no edit and does not report
\* 'ESLint failed'; a run that gets to the configuration check shows the
\* 'ESLint config not found' warning.
C14_ConfigurationMissing ==
  eslintConfig \notin {"configFile", "pkgEntry"} =>
    /\ ~Logged("lint")
    /\ ~Logged("publish")
    /\ HostCalls(hostLog, "applyEdit") = {}
    /\ docText = Source.text
    /\ ~Shown("ESLint failed")
    /\ ReachedConfigCheck => msgs = <<"ESLint config not found">>

\* a malformed package.json, reported as a missing configuration
C14_Witness ==
  /\ eslintConfig = "pkgMalformed"
  /\ pc = "done"
  /\ Shown("ESLint config not found")

\* ---- C15 ------------------------------------------------------------------
ApplyAnswers == {i \in 1..Len(responses) : responses[i].prompt = "apply"}

\* the host calls made after the save the unsaved-changes prompt asked for
CallsAfterLint ==
  {i \in 1..Len(hostLog) : i > Cardinality(SaveAnswers)}

\* the first lint returned: codeBefore and fixedCode are both known
Linted == Logged("publish")

\* C15: Lint for Errors edits and saves the document if and only if the
\* fixed text differs from the current text and the user answers
\* 'Apply & Save' to the preview (the edit is the whole fixed text, followed
\* by a save unless the host threw); with an equal fixed text there is no
\* preview and 'No lint fixes needed' is reported; with any other answer
\* nothing is edited or saved and 'No changes applied' is reported.
C15_EditIffDiffersAndApply ==
  pc = "done" =>
    /\ CallsAfterLint # {} <=>
         /\ Linted /\ fixedCode # code
         /\ \E i \in ApplyAnswers : responses[i].answer = "Apply & Save"
    /\ \A i \in CallsAfterLint :
         /\ hostLog[i].op = "applyEdit" => i = Cardinality(SaveAnswers) + 1
         /\ hostLog[i].op = "save" =>
              /\ i = Cardinality(SaveAnswers) + 2
              /\ hostLog[i - 1].op = "applyEdit"
              /\ hostLog[i - 1].res # "reject"
    /\ (\A i \in CallsAfterLint : hostLog[i].res = "ok")
         /\ Cardinality(CallsAfterLint) = 2
         => docText = fixedCode /\ diskText = fixedCode /\ ~isDirty
    /\ (Linted /\ fixedCode = code) =>
         /\ ~Logged("diff")
         /\ ApplyAnswers = {}
         /\ Last(msgs) = "No lint fixes needed"
    /\ \A i \in ApplyAnswers :
         responses[i].answer # "Apply & Save" =>
           /\ docText = code
           /\ Last(msgs) = "No changes applied"

\* the fixes were accepted, written and saved
C15_Witness ==
  /\ pc = "done"
  /\ \E i \in ApplyAnswers : responses[i].answer = "Apply & Save"
  /\ fixedCode # code
  /\ docText = fixedCode /\ diskText = fixedCode
  /\ Shown("ESLint fixes applied")

\* ---- C16 ------------------------------------------------------------------
\* C16: toSnakeCase is idempotent: converting the result of toSnakeCase(x)
\* again gives the same string, for every non-empty x.
C16_SnakeIdempotent ==
  (call.fn = "toSnakeCase" /\ ret.done /\ call.name # <<>>) =>
    toSnakeCase(ret.value) = ret.value

\* a conversion that changed its argument
C16_Witness ==
  /\ call.fn = "toSnakeCase"
  /\ ret.done
  /\ call.name = <<"a", "B", "B", "1">>
  /\ ret.value = <<"a", "_", "b", "_", "b", "1">>

C18_CamelLowercasesFirst ==
  (call.fn = "toCamelCase" /\ ret.done /\ isCamelCase(call.name)) =>
    ret.value = ToLowerCase(call.name)

\* ---- C19 ------------------------------------------------------------------
\* C19: avgFnLength is rendered "0.0" when the file has no functions and
\* commentDensity "0.0" for empty input; neither is ever "NaN" or
\* "Infinity".
C19_NoDivisionArtifacts ==
  ret.done =>
    /\ call.fn = "calculateAverageFunctionLength" =>
         /\ ret.value \notin {NaN, <<"I","n","f","i","n","i","t","y">>}
         /\ call.functions = <<>> => ret.value = <<"0", ".", "0">>
    /\ call.fn = "calculateCommentDensity" =>
         /\ ret.value \notin {NaN, <<"I","n","f","i","n","i","t","y">>}
         /\ call.text = <<>> => ret.value = <<"0", ".", "0">>

\* ---- C20 ------------------------------------------------------------------
\* the 1-based numbers of the lines of a text that carry a content once
\* trimmed and whitespace-normalized
Carriers(text, content) ==
  LET split == SplitLines(text, 1, <<>>)
  IN  {n \in 1..Len(split) :
         Trim(ReplaceRuns(split[n], 1, Space, " ")) = content}

Least(numbers) == CHOOSE n \in numbers : \A m \in numbers : n <= m

\* C20: every duplicate block reported names as its first line the smallest
\* line number carrying its whitespace-normalized content and as its second
\* line the first later line carrying it; a blank line or a line holding
\* only '}' is never reported.
C20_FirstAndNextOccurrence ==
  (call.fn = "checkCodeDuplication" /\ ret.done) =>
    \A k \in 1..Len(ret.value) :
      LET dup == ret.value[k]
          carriers == Carriers(call.text, dup.block)
      IN  /\ dup.block \notin {<<>>, <<"}">>}
          /\ dup.firstOccurrence \in carriers
          /\ dup.firstOccurrence = Least(carriers)
          /\ dup.secondOccurrence =
               Least({n \in carriers : n > dup.firstOccurrence})

\* ---- C21 ------------------------------------------------------------------
\* the identifier nodes that are the id of a variable declarator
DeclarationIds(source) ==
  {n \in 2..Len(source.ast) :
     /\ source.ast[n].type = "Identifier"
     /\ source.ast[n].parent = n - 1
     /\ source.ast[n - 1].type = "VariableDeclarator"}

DeclaredVariables(source) ==
  {source.ast[n].name : n \in {m \in 1..Len(source.ast) :
                                  source.ast[m].type = "VariableDeclarator"}}

ReferencedElsewhere(source, variable) ==
  \E n \in 1..Len(source.ast) :
    /\ source.ast[n].type = "Identifier"
    /\ source.ast[n].name = variable
    /\ n \notin DeclarationIds(source)

\* C21: unusedVariables = declared - referenced: a declared variable whose
\* name occurs nowhere but in its declaration is listed in unusedVariables,
\* and a variable referenced elsewhere is not listed.
C21_UnusedVariables ==
  (call.fn = "checkDeadCode" /\ ret.done) =>
    \A variable \in DeclaredVariables(Sources[call.source]) :
      Has(ret.value.unusedVariables, variable)
        <=> ~ReferencedElsewhere(Sources[call.source], variable)

\* ---- C22 ------------------------------------------------------------------
MismatchesReturned == call.fn = "findNamingMismatches" /\ ret.done

\* a name the style test and the transformer would make a candidate
Eligible(style, name) ==
  ~isStyle(style, name) /\ name # toStyle(style, name)

Proposed(name) == \E i \in 1..Len(ret.value) : ret.value[i].original = name

\* C22: a short/common name (sum, avg, max, min, val, num, idx, len, row,
\* col, tmp, res, obj) is never proposed, for any style and on any language
\* path, and the rule keeps no other name from being proposed.
C22_ShortCommonNamesOnly ==
  (MismatchesReturned /\ Len(call.names) = 1) =>
    LET name == call.names[1]
    IN  /\ name \in shortCommonNames => ~Proposed(name)
        /\ (name \notin shortCommonNames /\ Eligible(call.namingStyle, name))
             => Proposed(name)

C22_Witness ==
  /\ MismatchesReturned
  /\ call.names = <<<<"t","m","p">>>>
  /\ call.namingStyle = "PascalCase"
  /\ Eligible("PascalCase", call.names[1])
  /\ ret.value = <<>>

\* ---- C23 ------------------------------------------------------------------
ScoreReturned == call.fn = "calculateHealthScore" /\ ret.done

\* the thresholds as the claim states them
Thresholds(totalLines) ==
  LET factor == totalLines \div 1000
  IN  [top |-> IF 10 + factor < 30 THEN 10 + factor ELSE 30,
       large |-> IF 5 + factor < 15 THEN 5 + factor ELSE 15,
       undocumented |-> IF 2 + factor < 15 THEN 2 + factor ELSE 15]

\* the issues of the returned call, counted against the thresholds of a file
\* of totalLines lines
IssuesAt(totalLines) ==
  LET t == Thresholds(totalLines)
      b(cond) == IF cond THEN 1 ELSE 0
  IN  b(call.functionsData.topLevelFunctions > t.top)
        + b(call.functionsData.largeFunctions > t.large)
        + b(call.functionsData.undocumented > t.undocumented)
        + b(call.duplicateCode > 0)
        + (call.deadCode.unusedVariables + call.deadCode.unusedFunctions)
            \div 2

ContinuedToNext ==
  Cardinality({i \in 1..Len(responses) :
                 /\ responses[i].prompt = "next"
                 /\ responses[i].answer = "Yes"})

\* C24: in review-individually mode the reviewer can stop early: a further
\* candidate is previewed and prompted for only after the reviewer was asked
\* whether to go on and did not decline, so that declining ends the review
\* with the candidates applied so far.
C24_ReviewerCanStopEarly ==
  proceedMode = "Review Individually" => previews <= 1 + ContinuedToNext

\* ---- C25 ------------------------------------------------------------------
Count(log, event) == Cardinality({i \in 1..Len(log) : log[i] = event})

\* C25: every preview content provider Lint for Errors registers is disposed
\* exactly once before the run ends, on every path through the preview and
\* whatever the answer to the apply prompt.
C25_ProviderDisposedOnce ==
  /\ Count(toolLog, "dispose") <= Count(toolLog, "register")
  /\ pc = "done" => Count(toolLog, "dispose") = Count(toolLog, "register")

\* ---- C26 ------------------------------------------------------------------
\* C26: in review-individually mode, at every custom-name prompt the text of
\* the host document equals the current buffer of the engine, after any
\* sequence of accepted, skipped and failed steps.
C26_BufferMatchesDocument ==
  pc = "askName" => docText = currentCode

\* ---- C27 ------------------------------------------------------------------
\* C27: two distinct candidates of one run never have the same suggestion, so
\* applying all of them never merges two differently named bindings (my_var
\* and My_var under camelCase) into one name.
C27_SuggestionsDistinct ==
  MismatchesReturned =>
    \A i \in 1..Len(ret.value) : \A j \in 1..Len(ret.value) :
      ret.value[i].original # ret.value[j].original
        => ret.value[i].suggestion # ret.value[j].suggestion

\* ---- C28 ------------------------------------------------------------------
\* C28 as stated: every candidate's suggestion satisfies the validator of
\* the chosen style: isStyle(toStyle(original)) holds for each candidate of
\* a run, for camelCase, PascalCase and snake_case.
C28_SuggestionsValid ==
  MismatchesReturned =>
    \A i \in 1..Len(ret.value) :
      isStyle(call.namingStyle, ret.value[i].suggestion)

\* lower-case words of two or more letters joined by single underscores
PlainSnake(name) ==
  /\ \A i \in 1..Len(name) : name[i] \in Lower \cup {"_"}
  /\ \E i \in 1..Len(name) : name[i] = "_"
  /\ \A i \in 1..Len(name) :
       name[i] = "_" =>
         /\ i >= 3
         /\ i <= Len(name) - 2
         /\ \A j \in {i - 2, i - 1, i + 1, i + 2} : name[j] \in Lower

\* humps of two or more letters, each later one led by a capital
PlainHumps(name) ==
  /\ Len(name) >= 2
  /\ \A i \in 1..Len(name) : name[i] \in Lower \cup Upper
  /\ \E i \in 2..Len(name) : name[i] \in Upper
  /\ name[2] \in Lower
  /\ \A i \in 1..Len(name) :
       name[i] \in Upper => (i < Len(name) /\ name[i + 1] \in Lower)

\* C28, amended: the suggestion satisfies the validator of the chosen style
\* for every candidate whose original is made of two or more words of two
\* or more letters (my_var, myVar, MyVar); for other originals it need not
\* (Sum gives sum under snake_case, which the validator rejects).
C28_MultiWordSuggestionsValid ==
  MismatchesReturned =>
    \A i \in 1..Len(ret.value) :
      (PlainSnake(ret.value[i].original) \/ PlainHumps(ret.value[i].original))
        => isStyle(call.namingStyle, ret.value[i].suggestion)

C28_Witness ==
  /\ MismatchesReturned
  /\ call.namingStyle = "camelCase"
  /\ ret.value = <<[original |-> my_var, suggestion |-> myVar]>>
  /\ PlainSnake(my_var)
  /\ isCamelCase(myVar)

\* ---- C29 ------------------------------------------------------------------
\* C29: renaming converges: after apply-all was accepted and applied for a
\* style, running the engine again on the resulting text with the same style
\* yields no candidates.
C29_RenamingConverges ==
  (call.fn = "rerunAfterApplyAll" /\ ret.done) => ret.value = <<>>

\* ---- C30 ------------------------------------------------------------------
\* the declarations of a name in the file
DeclarationsOf(source, name) ==
  {n \in 1..Len(source.ast) :
     IsDeclaration(source.ast[n]) /\ source.ast[n].name = name}

\* C30: a final name typed by the reviewer is held to the collision guard of
\* a suggestion: it is written to the document only if it is not bound in a
\* scope enclosing the renamed declaration.
C30_CustomNameNotBound ==
  proceedMode = "Review Individually" =>
    \A i \in 1..Len(appliedPairs) :
      \A n \in DeclarationsOf(Source, appliedPairs[i].original) :
        appliedPairs[i].finalName \notin EnclosingBindings(Source, n)

====
